---- MODULE Spec2Model ----
(***************************************************************************)
(* Model of password_generator.py: PasswordPolicy, CharacterLake and       *)
(* PasswordGenerator (generate_password, _generate_passphrase,             *)
(* generate_multiple).                                                     *)
(*                                                                         *)
(* A character is a one-character string, a Python str is a sequence of    *)
(* characters.  The canonical classes of the string module are cut down:   *)
(* letters and digits to a plain and a "similar" character each,           *)
(* punctuation to "-", which is also one of the separators of a            *)
(* passphrase, so that candidate strings can be enumerated.                *)
(***************************************************************************)
EXTENDS Integers, Sequences, FiniteSets, TLC

VARIABLES policy, character_lake, wordlist,
          pc, op, length, category, strength, count,
          characters, attempts, drawn,
          words, separator, returned,
          passwords, outcome, candidate, verdict, alphabet

vars == <<policy, character_lake, wordlist, pc, op, length, category,
          strength, count, characters, attempts, drawn, words, separator,
          returned, passwords, outcome, candidate, verdict, alphabet>>

----------------------------------------------------------------------------
(* Bounds of the model *)

MaxLen == 2        \* largest max_length of a policy; lengths asked: 0..MaxLen+1
MaxCount == 2      \* largest count passed to generate_multiple
MaxCand == 2       \* longest candidate handed to validate_policy_compliance

----------------------------------------------------------------------------
(* Enumerations *)

BASIC == "BASIC"
STRONG == "STRONG"
PARANOID == "PARANOID"
PasswordStrength == {BASIC, STRONG, PARANOID}

ALPHANUMERIC == "ALPHANUMERIC"
COMPLEX == "COMPLEX"
PASSPHRASE == "PASSPHRASE"
PasswordCategory == {ALPHANUMERIC, COMPLEX, PASSPHRASE}

(* Exceptions.  IndexError is what random.choice / secrets.choice raise on *)
(* an empty sequence.                                                      *)
PolicyViolationError == "PolicyViolationError"
InputValidationError == "InputValidationError"
PasswordGeneratorError == "PasswordGeneratorError"
IndexError == "IndexError"

(* The two random sources: the random module and the secrets module. *)
RANDOM == "random"
SECRETS == "secrets"

----------------------------------------------------------------------------
(* Strings *)

Range(s) == {s[i] : i \in DOMAIN s}

\* str.lower() and str.upper() of one character
lower(c) ==
    CASE c = "A" -> "a" [] c = "L" -> "l" [] c = "I" -> "i" [] c = "O" -> "o"
      [] OTHER -> c

upper(c) ==
    CASE c = "a" -> "A" [] c = "l" -> "L" [] c = "i" -> "I" [] c = "o" -> "O"
      [] OTHER -> c

\* s.replace(c, '')
replace(s, c) == SelectSeq(s, LAMBDA x : x # c)

\* sum(1 for c in password if c in class)
CountIn(password, class) ==
    Cardinality({i \in DOMAIN password : password[i] \in Range(class)})

\* str.capitalize(): first character upper-cased, the rest lower-cased
capitalize(w) ==
    [i \in DOMAIN w |-> IF i = 1 THEN upper(w[i]) ELSE lower(w[i])]

\* separator.join(tokens)
RECURSIVE join(_, _)
join(sep, tokens) ==
    IF tokens = <<>> THEN <<>>
    ELSE IF Len(tokens) = 1 THEN tokens[1]
    ELSE tokens[1] \o sep \o join(sep, Tail(tokens))

\* All strings of n characters over the characters of s
Strings(s, n) == [1..n -> Range(s)]

----------------------------------------------------------------------------
(* string module constants, cut down *)

ascii_lowercase == <<"a", "l">>
ascii_uppercase == <<"A", "L">>
digits == <<"1", "2">>
punctuation == <<"-">>

similar_chars == <<"l", "1", "I", "o", "O", "0">>

----------------------------------------------------------------------------
(* CharacterLake *)

RECURSIVE _exclude_similar_chars(_, _)
_exclude_similar_chars(lake, chars) ==
    IF chars = <<>> THEN lake
    ELSE LET char == Head(chars) IN
         _exclude_similar_chars(
            [lake EXCEPT !.lowercase = replace(@, lower(char)),
                         !.uppercase = replace(@, upper(char)),
                         !.digits = replace(@, char)],
            Tail(chars))

RECURSIVE _exclude_specified_chars(_, _)
_exclude_specified_chars(lake, chars) ==
    IF chars = <<>> THEN lake
    ELSE LET char == Head(chars) IN
         _exclude_specified_chars(
            [lake EXCEPT !.lowercase = replace(@, lower(char)),
                         !.uppercase = replace(@, upper(char)),
                         !.digits = replace(@, char),
                         !.special = replace(@, char)],
            Tail(chars))

_initialize_character_sets(p) ==
    LET full == [lowercase |-> ascii_lowercase, uppercase |-> ascii_uppercase,
                 digits |-> digits, special |-> punctuation]
        sim == IF p.exclude_similar
               THEN _exclude_similar_chars(full, similar_chars) ELSE full
    IN IF p.exclude_chars # <<>>
       THEN _exclude_specified_chars(sim, p.exclude_chars) ELSE sim

get_character_set(lake, cat) ==
    CASE cat = ALPHANUMERIC -> lake.lowercase \o lake.uppercase \o lake.digits
      [] cat = COMPLEX ->
            lake.lowercase \o lake.uppercase \o lake.digits \o lake.special
      [] cat = PASSPHRASE -> lake.lowercase \o lake.uppercase

\* the predicate with the digit minimum left out
validate_no_digit_minimum(lake, p, password, cat) ==
    IF Len(password) < p.min_length THEN FALSE
    ELSE IF Len(password) > p.max_length THEN FALSE
    ELSE LET special_count == CountIn(password, lake.special)
             upper_count == CountIn(password, lake.uppercase)
             lower_count == CountIn(password, lake.lowercase)
         IN CASE cat = ALPHANUMERIC ->
                    /\ upper_count >= p.min_upper
                    /\ lower_count >= p.min_lower
              [] cat = COMPLEX ->
                    /\ special_count >= p.min_special
                    /\ upper_count >= p.min_upper
                    /\ lower_count >= p.min_lower
              [] cat = PASSPHRASE ->
                    /\ upper_count >= p.min_upper
                    /\ lower_count >= p.min_lower
              [] OTHER -> FALSE

\* the predicate with the two length checks left out
validate_no_length_check(lake, p, password, cat) ==
    LET digit_count == CountIn(password, lake.digits)
        special_count == CountIn(password, lake.special)
        upper_count == CountIn(password, lake.uppercase)
        lower_count == CountIn(password, lake.lowercase)
    IN CASE cat = ALPHANUMERIC ->
               /\ digit_count >= p.min_digits
               /\ upper_count >= p.min_upper
               /\ lower_count >= p.min_lower
         [] cat = COMPLEX ->
               /\ digit_count >= p.min_digits
               /\ special_count >= p.min_special
               /\ upper_count >= p.min_upper
               /\ lower_count >= p.min_lower
         [] cat = PASSPHRASE ->
               /\ upper_count >= p.min_upper
               /\ lower_count >= p.min_lower
         [] OTHER -> FALSE

validate_policy_compliance(lake, p, password, cat) ==
    IF Len(password) < p.min_length THEN FALSE
    ELSE IF Len(password) > p.max_length THEN FALSE
    ELSE LET digit_count == CountIn(password, lake.digits)
             special_count == CountIn(password, lake.special)
             upper_count == CountIn(password, lake.uppercase)
             lower_count == CountIn(password, lake.lowercase)
         IN CASE cat = ALPHANUMERIC ->
                    /\ digit_count >= p.min_digits
                    /\ upper_count >= p.min_upper
                    /\ lower_count >= p.min_lower
              [] cat = COMPLEX ->
                    /\ digit_count >= p.min_digits
                    /\ special_count >= p.min_special
                    /\ upper_count >= p.min_upper
                    /\ lower_count >= p.min_lower
              [] cat = PASSPHRASE ->
                    /\ upper_count >= p.min_upper
                    /\ lower_count >= p.min_lower
              [] OTHER -> FALSE

----------------------------------------------------------------------------
(* Policies, word list and call parameters the model ranges over *)

\* (min_length, max_length)
LengthBounds == {<<lo, hi>> \in {1, MaxLen} \X {1, MaxLen} : lo <= hi}

\* (min_digits, min_special, min_upper, min_lower)
Minimums ==
    {<<0, 0, 0, 0>>, <<1, 0, 0, 0>>, <<1, 1, 0, 0>>, <<0, 0, 1, 1>>}
      \cup {<<n + 1, 0, 0, 0>> : n \in 1..MaxLen}

\* (exclude_similar, exclude_chars)
Exclusions ==
    {<<FALSE, <<>>>>, <<TRUE, <<>>>>, <<TRUE, <<"2">>>>, <<TRUE, <<"-">>>>,
     <<TRUE, <<"A", "2">>>>}

PasswordPolicy(b, m, e) ==
    [min_length |-> b[1], max_length |-> b[2],
     min_digits |-> m[1], min_special |-> m[2],
     min_upper |-> m[3], min_lower |-> m[4],
     exclude_chars |-> e[2], exclude_similar |-> e[1]]

Policies ==
    {PasswordPolicy(b, m, e) : b \in LengthBounds, m \in Minimums,
                               e \in Exclusions}

\* Content of the word list file: lower-case words
WORDLIST == << <<"a">>, <<"l", "a">> >>

Lengths == 0..(MaxLen + 1)

\* Strings handed to validate_policy_compliance
Candidates == UNION {Strings(<<"a", "A", "2", "-">>, n) : n \in 0..MaxCand}

----------------------------------------------------------------------------
(* PasswordGenerator *)

max_attempts == 100

separators == << <<"-">>, <<"_">>, <<".">>, <<" ">>, <<>> >>

Ok(v) == [kind |-> "ok", value |-> v, error |-> ""]
Err(e) == [kind |-> "error", value |-> <<>>, error |-> e]
None == [kind |-> "none", value |-> <<>>, error |-> ""]

\* generate_password: the choice function bound to the strength
generator(s) == IF s = BASIC THEN RANDOM ELSE SECRETS

\* the fast source bound whatever the strength
passphrase_generator_always_random(s) == RANDOM

\* _generate_passphrase: the choice function bound to the strength
passphrase_generator(s) == IF s = BASIC THEN RANDOM ELSE SECRETS

\* the precondition with the lower bound made strict
LengthInRange_strict(p, len) == p.min_length < len /\ len <= p.max_length

\* the length precondition of generate_password
LengthInRange(p, len) == p.min_length <= len /\ len <= p.max_length

\* the orders secrets.SystemRandom().shuffle can leave a list in
RECURSIVE Orders(_)
Orders(S) ==
    IF S = {} THEN {<<>>}
    ELSE UNION {{<<x>> \o f : f \in Orders(S \ {x})} : x \in S}

shuffle(tokens) ==
    {[i \in DOMAIN tokens |-> tokens[f[i]]] : f \in Orders(DOMAIN tokens)}

Init ==
    /\ policy \in Policies
    /\ character_lake = _initialize_character_sets(policy)
    /\ wordlist = WORDLIST
    /\ pc = "idle"
    /\ op = "none"
    /\ length = 0
    /\ category = ALPHANUMERIC
    /\ strength = STRONG
    /\ count = 0
    /\ characters = <<>>
    /\ attempts = 0
    /\ drawn = {}
    /\ words = <<>>
    /\ separator = <<>>
    /\ returned = None
    /\ passwords = <<>>
    /\ outcome = None
    /\ candidate = <<>>
    /\ verdict = FALSE
    /\ alphabet = <<>>

\* generate_password(length, category, strength) is called
CallGeneratePassword(len, cat, str) ==
    /\ pc = "idle"
    /\ op' = "generate_password"
    /\ length' = len
    /\ category' = cat
    /\ strength' = str
    /\ pc' = "call"
    /\ UNCHANGED <<policy, character_lake, wordlist, count, characters,
                   attempts, drawn, words, separator, returned, passwords,
                   outcome, candidate, verdict, alphabet>>

\* generate_password returns r or raises r: to the caller, or into the list
\* comprehension of generate_multiple
Finish(r) ==
    /\ returned' = r
    /\ IF op = "generate_multiple"
       THEN IF r.kind = "ok"
            THEN /\ passwords' = Append(passwords, r.value)
                 /\ outcome' = outcome
                 /\ pc' = "multi"
            ELSE /\ passwords' = passwords
                 /\ outcome' = r
                 /\ pc' = "done"
       ELSE /\ passwords' = passwords
            /\ outcome' = outcome
            /\ pc' = "done"

\* lines 190-193: the length is outside the policy's bounds
RejectLength ==
    /\ pc = "call"
    /\ ~LengthInRange(policy, length)
    /\ Finish(Err(InputValidationError))
    /\ UNCHANGED <<policy, character_lake, wordlist, op, length, category,
                   strength, count, characters, attempts, drawn, words,
                   separator, candidate, verdict, alphabet>>

\* lines 198-206: character set, generator, attempts = 0
EnterLoop ==
    /\ pc = "call"
    /\ LengthInRange(policy, length)
    /\ category # PASSPHRASE
    /\ characters' = get_character_set(character_lake, category)
    /\ attempts' = 0
    /\ pc' = "loop"
    /\ UNCHANGED <<policy, character_lake, wordlist, op, length, category,
                   strength, count, drawn, words, separator, returned,
                   passwords, outcome, candidate, verdict, alphabet>>

\* lines 208-212: one iteration of the attempt loop
Attempt ==
    /\ pc = "loop"
    /\ attempts < max_attempts
    /\ IF length > 0 /\ characters = <<>>
       THEN \* choice on an empty sequence raises
            /\ drawn' = drawn \cup {generator(strength)}
            /\ attempts' = attempts
            /\ Finish(Err(IndexError))
       ELSE \E password \in Strings(characters, length) :
            /\ drawn' = IF length > 0
                        THEN drawn \cup {generator(strength)} ELSE drawn
            /\ IF validate_policy_compliance(character_lake, policy,
                                             password, category)
               THEN /\ attempts' = attempts
                    /\ Finish(Ok(password))
               ELSE /\ attempts' = attempts + 1
                    /\ UNCHANGED <<pc, returned, passwords, outcome>>
    /\ UNCHANGED <<policy, character_lake, wordlist, op, length, category,
                   strength, count, characters, words, separator, candidate,
                   verdict, alphabet>>

\* lines 214-216: the loop ended without a compliant password
Exhausted ==
    /\ pc = "loop"
    /\ ~(attempts < max_attempts)
    /\ Finish(Err(PolicyViolationError))
    /\ UNCHANGED <<policy, character_lake, wordlist, op, length, category,
                   strength, count, characters, attempts, drawn, words,
                   separator, candidate, verdict, alphabet>>

\* lines 242-247: capitalize the words whose coin is non-zero, add a digit
strong_tokens(ws, coin, d) ==
    Append([i \in DOMAIN ws |->
              IF coin[i] # 0 THEN capitalize(ws[i]) ELSE ws[i]], <<d>>)

\* the same with the special character left out
paranoid_tokens_no_special(ws, d, sp) ==
    Append([i \in DOMAIN ws |-> capitalize(ws[i])], <<d>>)

\* lines 251-255: capitalize all words, add a digit and a special character
paranoid_tokens(ws, d, sp) ==
    [i \in DOMAIN ws |-> capitalize(ws[i])] \o << <<d>>, <<sp>> >>

\* lines 195-196 and _generate_passphrase (lines 229-261)
GeneratePassphrase ==
    /\ pc = "call"
    /\ LengthInRange(policy, length)
    /\ category = PASSPHRASE
    /\ IF wordlist = <<>>
       THEN /\ Finish(Err(PasswordGeneratorError))
            /\ UNCHANGED <<drawn, words, separator>>
       ELSE \E ws \in [1..length -> Range(wordlist)] :
            LET word_draws == IF length > 0
                              THEN {passphrase_generator(strength)} ELSE {}
            IN
            CASE strength = BASIC ->
                    /\ drawn' = drawn \cup word_draws
                    /\ words' = ws
                    /\ separator' = <<" ">>
                    /\ Finish(Ok(join(<<" ">>, ws)))
              [] strength = STRONG ->
                    \E coin \in [1..length -> {0, 1}] :
                    /\ drawn' = drawn \cup word_draws \cup {SECRETS}
                    /\ IF character_lake.digits = <<>>
                       THEN /\ words' = ws
                            /\ separator' = separator
                            /\ Finish(Err(IndexError))
                       ELSE \E d \in Range(character_lake.digits),
                               sep \in Range(separators) :
                            /\ words' = strong_tokens(ws, coin, d)
                            /\ separator' = sep
                            /\ Finish(Ok(join(sep, strong_tokens(ws, coin, d))))
              [] strength = PARANOID ->
                    /\ drawn' = drawn \cup word_draws \cup {SECRETS}
                    /\ IF \/ character_lake.digits = <<>>
                          \/ character_lake.special = <<>>
                       THEN /\ words' = ws
                            /\ separator' = separator
                            /\ Finish(Err(IndexError))
                       ELSE \E d \in Range(character_lake.digits),
                               sp \in Range(character_lake.special),
                               sep \in Range(separators) :
                            \E shuffled \in shuffle(paranoid_tokens(ws, d, sp)) :
                            /\ words' = shuffled
                            /\ separator' = sep
                            /\ Finish(Ok(join(sep, shuffled)))
    /\ UNCHANGED <<policy, character_lake, wordlist, op, length, category,
                   strength, count, characters, attempts, candidate, verdict,
                   alphabet>>

\* generate_multiple(count, length, category, strength) is called
CallGenerateMultiple(cnt, len, cat, str) ==
    /\ pc = "idle"
    /\ op' = "generate_multiple"
    /\ count' = cnt
    /\ length' = len
    /\ category' = cat
    /\ strength' = str
    /\ passwords' = <<>>
    /\ pc' = "multi"
    /\ UNCHANGED <<policy, character_lake, wordlist, characters, attempts,
                   drawn, words, separator, returned, outcome, candidate,
                   verdict, alphabet>>

\* line 277: the comprehension calls generate_password for the next element
MultipleNext ==
    /\ pc = "multi"
    /\ Len(passwords) < count
    /\ pc' = "call"
    /\ characters' = <<>>
    /\ attempts' = 0
    /\ drawn' = {}
    /\ words' = <<>>
    /\ separator' = <<>>
    /\ returned' = None
    /\ UNCHANGED <<policy, character_lake, wordlist, op, length, category,
                   strength, count, passwords, outcome, candidate, verdict,
                   alphabet>>

\* the list returned one element early
MultipleReturn_one_short ==
    /\ pc = "multi"
    /\ ~(Len(passwords) + 1 < count)
    /\ outcome' = Ok(passwords)
    /\ pc' = "done"
    /\ UNCHANGED <<policy, character_lake, wordlist, op, length, category,
                   strength, count, characters, attempts, drawn, words,
                   separator, returned, passwords, candidate, verdict,
                   alphabet>>

\* line 277: range(count) is used up, the list is returned
MultipleReturn ==
    /\ pc = "multi"
    /\ ~(Len(passwords) < count)
    /\ outcome' = Ok(passwords)
    /\ pc' = "done"
    /\ UNCHANGED <<policy, character_lake, wordlist, op, length, category,
                   strength, count, characters, attempts, drawn, words,
                   separator, returned, passwords, candidate, verdict,
                   alphabet>>

\* character_lake.validate_policy_compliance(password, category) is called
CallValidatePolicyCompliance(password, cat) ==
    /\ pc = "idle"
    /\ op' = "validate_policy_compliance"
    /\ candidate' = password
    /\ category' = cat
    /\ verdict' = validate_policy_compliance(character_lake, policy,
                                             password, cat)
    /\ pc' = "done"
    /\ UNCHANGED <<policy, character_lake, wordlist, length, strength, count,
                   characters, attempts, drawn, words, separator, returned,
                   passwords, outcome, alphabet>>

\* character_lake.get_character_set(category) is called
CallGetCharacterSet(cat) ==
    /\ pc = "idle"
    /\ op' = "get_character_set"
    /\ category' = cat
    /\ alphabet' = get_character_set(character_lake, cat)
    /\ pc' = "done"
    /\ UNCHANGED <<policy, character_lake, wordlist, length, strength, count,
                   characters, attempts, drawn, words, separator, returned,
                   passwords, outcome, candidate, verdict>>

Next ==
    \/ \E len \in Lengths, cat \in PasswordCategory, str \in PasswordStrength :
          CallGeneratePassword(len, cat, str)
    \/ \E password \in Candidates, cat \in PasswordCategory :
          CallValidatePolicyCompliance(password, cat)
    \/ \E cat \in PasswordCategory : CallGetCharacterSet(cat)
    \/ RejectLength
    \/ GeneratePassphrase
    \/ EnterLoop
    \/ Attempt
    \/ Exhausted

Spec == Init /\ [][Next]_vars

(* generate_multiple, on policies whose character sets and length bounds   *)
(* keep the lists of results enumerable                                    *)
MultiplePolicies ==
    {PasswordPolicy(<<1, 1>>, m, <<TRUE, <<>>>>) :
        m \in {<<0, 0, 0, 0>>, <<1, 0, 0, 0>>, <<2, 0, 0, 0>>}}

InitMultiple ==
    /\ policy \in MultiplePolicies
    /\ character_lake = _initialize_character_sets(policy)
    /\ wordlist = WORDLIST
    /\ pc = "idle"
    /\ op = "none"
    /\ length = 0
    /\ category = ALPHANUMERIC
    /\ strength = STRONG
    /\ count = 0
    /\ characters = <<>>
    /\ attempts = 0
    /\ drawn = {}
    /\ words = <<>>
    /\ separator = <<>>
    /\ returned = None
    /\ passwords = <<>>
    /\ outcome = None
    /\ candidate = <<>>
    /\ verdict = FALSE
    /\ alphabet = <<>>

NextMultiple ==
    \/ \E cnt \in 0..MaxCount, len \in Lengths, cat \in PasswordCategory,
          str \in PasswordStrength :
          CallGenerateMultiple(cnt, len, cat, str)
    \/ MultipleNext
    \/ MultipleReturn
    \/ RejectLength
    \/ GeneratePassphrase
    \/ EnterLoop
    \/ Attempt
    \/ Exhausted

SpecMultiple == InitMultiple /\ [][NextMultiple]_vars

----------------------------------------------------------------------------
(* Properties *)

Returned == op = "generate_password" /\ pc = "done" /\ returned.kind = "ok"
Raised(e) == op = "generate_password" /\ pc = "done" /\ returned = Err(e)

\* C1: a string returned for Alphanumeric or Complex has exactly `length`
\* characters, all of the category's alphabet, and its digit, upper and lower
\* counts (and special count for Complex) meet the policy's minimums.
C1_ReturnedMeetsPolicy ==
    (Returned /\ category \in {ALPHANUMERIC, COMPLEX}) =>
        /\ policy.min_length <= length /\ length <= policy.max_length
        /\ Len(returned.value) = length
        /\ Range(returned.value)
             \subseteq Range(get_character_set(character_lake, category))
        /\ CountIn(returned.value, digits) >= policy.min_digits
        /\ CountIn(returned.value, ascii_uppercase) >= policy.min_upper
        /\ CountIn(returned.value, ascii_lowercase) >= policy.min_lower
        /\ category = COMPLEX =>
               CountIn(returned.value, punctuation) >= policy.min_special

C1_Witness ==
    /\ Returned
    /\ category = COMPLEX
    /\ policy.min_digits = 1
    /\ policy.min_special = 1
    /\ length = 2
    /\ attempts > 0

\* C2: a length below min_length or above max_length ends in an input
\* validation error with no random draw made, whatever the category and
\* strength; a length equal to min_length or max_length is never rejected
\* with an input validation error.
C2_LengthBounds ==
    (op = "generate_password" /\ pc = "done") =>
        /\ (length < policy.min_length \/ length > policy.max_length) =>
               /\ returned = Err(InputValidationError)
               /\ drawn = {}
        /\ (length = policy.min_length \/ length = policy.max_length) =>
               returned.error # InputValidationError

C2_Witness ==
    /\ Raised(InputValidationError)
    /\ length = policy.max_length + 1
    /\ category = PASSPHRASE
    /\ strength = BASIC
    /\ drawn = {}

\* C3: with min_digits = length + 1 and Alphanumeric, an accepted call ends
\* with a policy violation error after exactly max_attempts attempts.
C3_ExhaustsAfterCeiling ==
    (/\ op = "generate_password" /\ pc = "done"
     /\ category = ALPHANUMERIC
     /\ policy.min_length <= length /\ length <= policy.max_length
     /\ policy.min_digits = length + 1) =>
        /\ returned = Err(PolicyViolationError)
        /\ attempts = max_attempts

\* the characters the policy excludes
Excluded(p) ==
    Range(p.exclude_chars)
      \cup (IF p.exclude_similar THEN Range(similar_chars) ELSE {})

\* C4: no returned string, of any category and strength, contains a character
\* of exclude_chars or, with exclude_similar set, of the similar characters.
C4_NoExcludedCharacter ==
    Returned => Range(returned.value) \cap Excluded(policy) = {}

\* a class the category's alphabet is made of has been emptied
RequiredClassEmptied(lake, cat) ==
    \/ lake.lowercase = <<>>
    \/ lake.uppercase = <<>>
    \/ cat \in {ALPHANUMERIC, COMPLEX} /\ lake.digits = <<>>
    \/ cat = COMPLEX /\ lake.special = <<>>

\* C5: when exclusions have emptied a class the category requires, asking for
\* the alphabet or generating for a character category fails at once with a
\* configuration error.
C5_EmptiedClassFailsFast ==
    (/\ pc = "done"
     /\ RequiredClassEmptied(character_lake, category)
     /\ \/ op = "get_character_set"
        \/ /\ op = "generate_password"
           /\ category # PASSPHRASE
           /\ policy.min_length <= length /\ length <= policy.max_length) =>
        /\ returned = Err("ConfigurationError")
        /\ attempts = 0
        /\ drawn = {}

\* C6: generate_multiple returns exactly `count` strings, each the value one
\* generate_password call with the same arguments returned, or fails with
\* the error of the first failing call and returns no list.
C6_ResultOfMultiple ==
    (op = "generate_multiple" /\ pc = "done") =>
        \/ /\ outcome.kind = "ok"
           /\ outcome.value = passwords
           /\ Len(outcome.value) = count
           /\ \A i \in DOMAIN passwords :
                 category # PASSPHRASE =>
                    /\ Len(passwords[i]) = length
                    /\ validate_policy_compliance(character_lake, policy,
                                                  passwords[i], category)
        \/ /\ outcome.kind = "error"
           /\ outcome = returned
           /\ outcome.value = <<>>
           /\ Len(passwords) < count

C6_ListGrowsByReturns ==
    op = "generate_multiple" =>
        /\ <<count, length, category, strength>>'
             = <<count, length, category, strength>>
        /\ passwords' # passwords =>
              /\ returned'.kind = "ok"
              /\ passwords' = Append(passwords, returned'.value)
        /\ (returned'.kind = "error" /\ returned.kind # "error") =>
              /\ pc' = "done"
              /\ outcome' = returned'

C6_GenerateMultiple ==
    [](C6_ResultOfMultiple) /\ [][C6_ListGrowsByReturns]_vars

C6_Witness ==
    /\ op = "generate_multiple"
    /\ pc = "done"
    /\ count = 2
    /\ outcome.kind = "ok"
    /\ Len(outcome.value) = 2
    /\ category = COMPLEX

\* str.split(sep) for a one-character separator
RECURSIVE split(_, _)
split(str, sep) ==
    IF \A i \in DOMAIN str : str[i] # sep THEN <<str>>
    ELSE LET i == CHOOSE k \in DOMAIN str :
                     str[k] = sep /\ \A j \in 1..(k - 1) : str[j] # sep
         IN <<SubSeq(str, 1, i - 1)>>
               \o split(SubSeq(str, i + 1, Len(str)), sep)

IsWordToken(t) == Len(t) >= 1 /\ t[1] \in Range(ascii_uppercase)
IsDigitToken(t) == Len(t) = 1 /\ t[1] \in Range(digits)
IsSpecialToken(t) == Len(t) = 1 /\ t[1] \in Range(punctuation)
HowMany(tokens, P(_)) == Cardinality({i \in DOMAIN tokens : P(tokens[i])})

\* n capitalized words, one digit and one special character, in any order
ParanoidShape(tokens, n) ==
    /\ Len(tokens) = n + 2
    /\ HowMany(tokens, IsWordToken) = n
    /\ HowMany(tokens, IsDigitToken) = 1
    /\ HowMany(tokens, IsSpecialToken) = 1

ReturnedParanoid == Returned /\ category = PASSPHRASE /\ strength = PARANOID

\* C7 as claimed: the returned Paranoid passphrase splits on its separator
\* into n + 2 tokens: n capitalized words, one digit, one special character.
C7_SplitsIntoTokens ==
    ReturnedParanoid =>
        /\ separator # <<>>
        /\ ParanoidShape(split(returned.value, separator[1]), length)

\* C7 as amended: the returned Paranoid passphrase is the join, by one of the
\* five separators, of n + 2 tokens of that shape; splitting gives the tokens
\* back when the separator is not empty and occurs in no token.
C7_JoinOfTokens ==
    ReturnedParanoid =>
        /\ ParanoidShape(words, length)
        /\ separator \in Range(separators)
        /\ returned.value = join(separator, words)
        /\ (/\ separator # <<>>
            /\ \A i \in DOMAIN words : separator[1] \notin Range(words[i])) =>
               split(returned.value, separator[1]) = words

C7_Witness ==
    /\ ReturnedParanoid
    /\ length = 2
    /\ separator = <<"-">>
    /\ \E i \in DOMAIN words : words[i] = <<"-">>
    /\ Len(split(returned.value, "-")) # length + 2

Validated == op = "validate_policy_compliance" /\ pc = "done"

\* C8 as claimed: for Passphrase the predicate is decided by the uppercase
\* and lowercase counts alone.
C8_OnlyUpperLower ==
    (Validated /\ category = PASSPHRASE) =>
        verdict = (/\ CountIn(candidate, character_lake.uppercase)
                        >= policy.min_upper
                   /\ CountIn(candidate, character_lake.lowercase)
                        >= policy.min_lower)

\* C8 as amended: for Passphrase the predicate holds exactly when the
\* candidate's length lies in [min_length, max_length] and its uppercase and
\* lowercase counts meet min_upper and min_lower.
C8_LengthAndUpperLower ==
    (Validated /\ category = PASSPHRASE) =>
        verdict = (/\ policy.min_length <= Len(candidate)
                   /\ Len(candidate) <= policy.max_length
                   /\ CountIn(candidate, character_lake.uppercase)
                        >= policy.min_upper
                   /\ CountIn(candidate, character_lake.lowercase)
                        >= policy.min_lower)

C8_Witness ==
    /\ Validated
    /\ category = PASSPHRASE
    /\ Len(candidate) > policy.max_length
    /\ CountIn(candidate, character_lake.uppercase) >= policy.min_upper
    /\ CountIn(candidate, character_lake.lowercase) >= policy.min_lower
    /\ policy.min_upper = 1
    /\ verdict = FALSE

\* C9: every returned string, Passphrase included, satisfies the compliance
\* predicate of its category.
C9_ReturnedIsCompliant ==
    Returned => validate_policy_compliance(character_lake, policy,
                                           returned.value, category)

\* C10: a Basic call draws from the random module only, a Strong or Paranoid
\* call from the secrets module only.
C10_OneSourcePerCall ==
    op = "generate_password" =>
        /\ strength = BASIC => drawn \subseteq {RANDOM}
        /\ strength # BASIC => drawn \subseteq {SECRETS}

C10_Witness ==
    /\ Returned
    /\ category = PASSPHRASE
    /\ strength = STRONG
    /\ length = 2
    /\ drawn = {SECRETS}

====
